---- MODULE Spec2Model ----
(***************************************************************************)
(* Binomial-lattice pricing engine of Ursuline/derivatives:                *)
(*   src/lattice.py         Lattice base class and _back_prop              *)
(*   src/bonds.py           short rate, ZCB, ZCB options, bond fwd/futures *)
(*   src/term_structure.py  caplets/floorlets, swaps, swaptions,           *)
(*                          elementary prices                              *)
(*   src/options.py         equity calibration, shares, futures, options   *)
(*                                                                         *)
(* Numbers.  The Python code computes in floats; the model computes the    *)
(* same expressions in exact rational arithmetic.  A value is a pair       *)
(* <<n, d>>: d > 0 is the rational n/d in lowest terms, d = 0 is a         *)
(* non-number: <<0,0>> is the empty string '' that lattice.Lattice puts in *)
(* every cell at allocation, <<k,0>> (k > 0) is a raised exception, which  *)
(* every arithmetic operator propagates.                                   *)
(*                                                                         *)
(* Every loop body of a build is one step of the state machine; pc holds   *)
(* the builder's position (object, period, state) and log records every    *)
(* lattice cell read and written, in program order.                        *)
(***************************************************************************)
EXTENDS Integers, Sequences, FiniteSets, TLC

VARIABLES
  ts,       \* TermStructureParameters: [init, r_ud, rnp, nperiods]
  sec,      \* options.Security: [init, n_periods, r_ud, rfp] once calibrated
  opt,      \* option flags and terms of the equity option
  par,      \* contract parameters per lattice object
  lattice,  \* object -> its .lattice table, lattice[o][state][period]
  size,     \* object -> its .size (the horizon its loops use)
  made,     \* objects constructed so far
  done,     \* objects whose build has completed
  pc,       \* position of the running build: [obj, period, state]
  log,      \* sequence of cell accesses [k, by, of, s, p]
  err,      \* "none", or the exception that ended the program
  elem      \* ElementaryPrices: [price, rates] and the number of discount() calls

vars == <<ts, sec, opt, par, lattice, size, made, done, pc, log, err, elem>>

-----------------------------------------------------------------------------
(* Bounds of the model *)

MaxN == 3
MaxCalls == 2   \* calls of ElementaryPrices.discount on one lattice

-----------------------------------------------------------------------------
(* Exact arithmetic standing for Python's float arithmetic *)

Abs(x) == IF x < 0 THEN -x ELSE x

RECURSIVE GCD(_, _)
GCD(a, b) == IF b = 0 THEN a ELSE GCD(b, a % b)

\* the rational n/d (d # 0) in lowest terms with a positive denominator
Q(n, d) ==
  LET g == GCD(Abs(n), Abs(d))
      s == IF d < 0 THEN -1 ELSE 1
  IN  <<(s * n) \div g, (s * d) \div g>>

Num(n) == <<n, 1>>

Blank          == <<0, 0>>   \* '' : the cell value Lattice.__init__ allocates
TypeError      == <<1, 0>>
ZeroDivision   == <<2, 0>>
IndexError     == <<3, 0>>
ValueError     == <<4, 0>>

IsNum(v) == v[2] > 0

\* arithmetic on '' raises TypeError; an exception already raised propagates
Raised(a, b) ==
  IF ~IsNum(a) THEN (IF a = Blank THEN TypeError ELSE a)
  ELSE IF b = Blank THEN TypeError ELSE b

\* a[1]/a[2] + sign * b[1]/b[2], over the least common denominator
AddSigned(a, b, sign) ==
  LET g == GCD(a[2], b[2])
  IN  Q(a[1] * (b[2] \div g) + sign * b[1] * (a[2] \div g), (a[2] \div g) * b[2])

\* a[1]/a[2] * b[1]/b[2], cancelling common factors before multiplying
MulFrac(a, b) ==
  LET g1 == GCD(Abs(a[1]), b[2])
      g2 == GCD(Abs(b[1]), a[2])
  IN  Q((a[1] \div g1) * (b[1] \div g2), (a[2] \div g2) * (b[2] \div g1))

Add(a, b) == IF IsNum(a) /\ IsNum(b) THEN AddSigned(a, b, 1) ELSE Raised(a, b)
Sub(a, b) == IF IsNum(a) /\ IsNum(b) THEN AddSigned(a, b, -1) ELSE Raised(a, b)
Mul(a, b) == IF IsNum(a) /\ IsNum(b) THEN MulFrac(a, b) ELSE Raised(a, b)
Div(a, b) == IF IsNum(a) /\ IsNum(b)
             THEN (IF b[1] = 0 THEN ZeroDivision
                   ELSE MulFrac(a, Q(b[2], b[1])))
             ELSE Raised(a, b)

\* comparisons of numbers
Lt(a, b)  == LET g == GCD(a[2], b[2])
             IN  a[1] * (b[2] \div g) < b[1] * (a[2] \div g)
Le(a, b)  == LET g == GCD(a[2], b[2])
             IN  a[1] * (b[2] \div g) <= b[1] * (a[2] \div g)

\* Python's max(a, b): a unless b > a
Max(a, b) == IF IsNum(a) /\ IsNum(b) THEN (IF Lt(a, b) THEN b ELSE a)
             ELSE Raised(a, b)

RECURSIVE Pow(_, _)
Pow(a, n) == IF n = 0 THEN Num(1) ELSE Mul(a, Pow(a, n - 1))

ExcName(v) == CASE v = TypeError    -> "TypeError"
                [] v = ZeroDivision -> "ZeroDivisionError"
                [] v = IndexError   -> "IndexError"
                [] v = ValueError   -> "ValueError"
                [] OTHER            -> "Exception"

IsExc(v) == v[2] = 0 /\ v[1] > 0

-----------------------------------------------------------------------------
(* Python strings, as sequences of character codes *)

S_call     == <<99, 97, 108, 108>>
S_put      == <<112, 117, 116>>
S_Put      == <<80, 117, 116>>
S_swap     == <<115, 119, 97, 112>>
S_european == <<101, 117, 114, 111, 112, 101, 97, 110>>
S_american == <<97, 109, 101, 114, 105, 99, 97, 110>>
S_American == <<65, 109, 101, 114, 105, 99, 97, 110>>
S_caplet   == <<99, 97, 112, 108, 101, 116>>
S_floorlet == <<102, 108, 111, 111, 114, 108, 101, 116>>
S_Floorlet == <<70, 108, 111, 111, 114, 108, 101, 116>>
S_forward  == <<102, 111, 114, 119, 97, 114, 100>>
S_future   == <<102, 117, 116, 117, 114, 101>>
S_Forward  == <<70, 111, 114, 119, 97, 114, 100>>
S_FUTURE   == <<70, 85, 84, 85, 82, 69>>

LowerChar(c) == IF c \in 65..90 THEN c + 32 ELSE c
UpperChar(c) == IF c \in 97..122 THEN c - 32 ELSE c

\* str.lower
str_lower(s) == [i \in 1..Len(s) |-> LowerChar(s[i])]

\* str.capitalize: first character upper-cased, the rest lower-cased
str_capitalize(s) ==
  [i \in 1..Len(s) |-> IF i = 1 THEN UpperChar(s[i]) ELSE LowerChar(s[i])]

-----------------------------------------------------------------------------
(* lattice.Lattice: the table and the one-step back-propagation *)

Objs == {"sh_rate", "zcb", "zcb_opt_e", "zcb_opt_a", "bond_ff", "cflet",
         "swap", "swaption", "elementary", "shares", "futures",
         "payoff_1", "payoff_2"}

\* Lattice.__init__: a (size+1) x (size+1) table of ''
Lattice_init(n) == [s \in 0..n |-> [p \in 0..n |-> Blank]]

\* a Python list index: negative indices count from the end
Idx(i, len) == IF i < 0 THEN i + len ELSE i

\* self.lattice[row][column] of object o
Get(o, row, column) ==
  LET len == Cardinality(DOMAIN lattice[o])
      r   == Idx(row, len)
      c   == Idx(column, len)
  IN  IF r \in 0..(len - 1) /\ c \in 0..(len - 1)
      THEN lattice[o][r][c] ELSE IndexError

\* Lattice._back_prop with p_1 read one row further (lattice[row+2][column+1])
Lattice_back_prop_shifted(o, row, column, rnp) ==
  LET p_1 == Get(o, row + 2, column + 1)
      p_2 == Get(o, row, column + 1)
  IN  [val   |-> Add(Mul(p_1, rnp[1]), Mul(p_2, rnp[2])),
       reads |-> << <<o, row + 2, column + 1>>, <<o, row, column + 1>> >>]

\* Lattice._back_prop: p_1 * rnp[0] + p_2 * rnp[1], with the cells it reads
Lattice_back_prop(o, row, column, rnp) ==
  LET p_1 == Get(o, row + 1, column + 1)
      p_2 == Get(o, row, column + 1)
  IN  [val   |-> Add(Mul(p_1, rnp[1]), Mul(p_2, rnp[2])),
       reads |-> << <<o, row + 1, column + 1>>, <<o, row, column + 1>> >>]

-----------------------------------------------------------------------------
(* The loop machinery shared by every build *)

Idle == [obj |-> "none", period |-> 0, state |-> 0]

\* the backward loops stepping two periods at a time
BackAdvance_skipping ==
  IF pc.state > 0 THEN [pc EXCEPT !.state = @ - 1]
  ELSE IF pc.period > 1
       THEN [pc EXCEPT !.period = @ - 2, !.state = pc.period - 2]
       ELSE Idle

\* for period in range(n, -1, -1): for state in range(period, -1, -1)
BackStart(o, n) == IF n < 0 THEN Idle ELSE [obj |-> o, period |-> n, state |-> n]
BackAdvance ==
  IF pc.state > 0 THEN [pc EXCEPT !.state = @ - 1]
  ELSE IF pc.period > 0
       THEN [pc EXCEPT !.period = @ - 1, !.state = pc.period - 1]
       ELSE Idle

\* for period in range(1, n+1): for state in range(0, period+1)
FwdStart(o, n) == IF n < 1 THEN Idle ELSE [obj |-> o, period |-> 1, state |-> 0]
FwdAdvance ==
  IF pc.state < pc.period THEN [pc EXCEPT !.state = @ + 1]
  ELSE IF pc.period < size[pc.obj]
       THEN [pc EXCEPT !.period = @ + 1, !.state = 0]
       ELSE Idle

ReadEvents(by, reads) ==
  [i \in 1..Len(reads) |->
     [k |-> "r", by |-> by, of |-> reads[i][1], s |-> reads[i][2], p |-> reads[i][3]]]

WriteEvent(o, s, p) == [k |-> "w", by |-> o, of |-> o, s |-> s, p |-> p]

\* One execution of a loop body: the body reads rule.reads, then assigns
\* rule.val to self.lattice[state][period]; an exception ends the program.
Step(o, rule, advance) ==
  /\ err = "none"
  /\ pc.obj = o
  /\ IF IsExc(rule.val)
     THEN /\ err' = ExcName(rule.val)
          /\ log' = log \o ReadEvents(o, rule.reads)
          /\ UNCHANGED <<lattice, pc, done>>
     ELSE /\ lattice' = [lattice EXCEPT ![o][pc.state][pc.period] = rule.val]
          /\ log' = log \o ReadEvents(o, rule.reads)
                        \o <<WriteEvent(o, pc.state, pc.period)>>
          /\ pc' = advance
          /\ done' = IF advance = Idle THEN done \cup {o} ELSE done
          /\ err' = err
  /\ UNCHANGED <<ts, sec, opt, par, size, made, elem>>

\* entering a build loop at position start
Enter(o, start) ==
  /\ pc' = start
  /\ done' = IF start = Idle THEN done \cup {o} ELSE done

-----------------------------------------------------------------------------
(* bonds.py / term_structure.py: term structure and short-rate lattice *)

Half    == <<1, 2>>
R00Set  == {Half, Num(1)}
RudSet  == {<<Num(1), Num(1)>>, <<Num(2), Half>>}
RnpSet  == {<<Half, Half>>, <<<<1, 4>>, <<3, 4>>>>}

\* TermStructureParameters.__init__ (TS_R00, TS_RUD, TS_RNP, TS_NPER)
TermStructureParameters_init ==
  /\ err = "none" /\ pc = Idle
  /\ made = {} /\ ~sec.called
  /\ \E init \in R00Set, r_ud \in RudSet, rnp \in RnpSet, n \in 1..MaxN :
       ts' = [init |-> init, r_ud |-> r_ud, rnp |-> rnp, nperiods |-> n]
  /\ made' = {"term_params"}
  /\ UNCHANGED <<sec, opt, par, lattice, size, done, pc, log, err, elem>>

\* ShortRate.__init__ and the first statement of _build: lattice[0][0] = init
ShortRate_init ==
  /\ err = "none" /\ pc = Idle
  /\ "term_params" \in made /\ "sh_rate" \notin made
  /\ made' = made \cup {"sh_rate"}
  /\ size' = [size EXCEPT !["sh_rate"] = ts.nperiods]
  /\ lattice' = [lattice EXCEPT !["sh_rate"] =
                   [Lattice_init(ts.nperiods) EXCEPT ![0][0] = ts.init]]
  /\ log' = log \o <<WriteEvent("sh_rate", 0, 0)>>
  /\ Enter("sh_rate", FwdStart("sh_rate", ts.nperiods))
  /\ UNCHANGED <<ts, sec, opt, par, err, elem>>

\* ShortRate._build with the up and down multipliers exchanged
ShortRate_cell_swapped(state, period) ==
  IF state = 0
  THEN [val   |-> Mul(ts.r_ud[1], Get("sh_rate", state, period - 1)),
        reads |-> << <<"sh_rate", state, period - 1>> >>]
  ELSE [val   |-> Mul(ts.r_ud[2], Get("sh_rate", state - 1, period - 1)),
        reads |-> << <<"sh_rate", state - 1, period - 1>> >>]

\* ShortRate._build, loop body
ShortRate_cell(state, period) ==
  IF state = 0
  THEN [val   |-> Mul(ts.r_ud[2], Get("sh_rate", state, period - 1)),
        reads |-> << <<"sh_rate", state, period - 1>> >>]
  ELSE [val   |-> Mul(ts.r_ud[1], Get("sh_rate", state - 1, period - 1)),
        reads |-> << <<"sh_rate", state - 1, period - 1>> >>]

ShortRate_build == Step("sh_rate", ShortRate_cell(pc.state, pc.period), FwdAdvance)

-----------------------------------------------------------------------------
(* bonds.py: zero-coupon bond *)

FaceSet == {Num(1), Num(100)}

\* ZCBParameters.__init__ and ZCB.__init__
ZCB_init ==
  /\ err = "none" /\ pc = Idle
  /\ "sh_rate" \in done /\ made \cap {"zcb", "cflet", "swap", "elementary"} = {}
  /\ \E face \in FaceSet, n \in 0..ts.nperiods :
       /\ par' = [par EXCEPT !["zcb"] = [face |-> face, nperiods |-> n]]
       /\ size' = [size EXCEPT !["zcb"] = n]
       /\ lattice' = [lattice EXCEPT !["zcb"] = Lattice_init(n)]
  /\ made' = made \cup {"zcb"}
  /\ UNCHANGED <<ts, sec, opt, done, pc, log, err, elem>>

\* zcb.build(short_rates, term_params): the call
ZCB_build_call ==
  /\ err = "none" /\ pc = Idle
  /\ "zcb" \in made /\ "zcb" \notin done
  /\ Enter("zcb", BackStart("zcb", size["zcb"]))
  /\ UNCHANGED <<ts, sec, opt, par, lattice, size, made, log, err, elem>>

\* ZCB.build with denom = sh_rate.lattice[state][period], the "1 +" dropped
ZCB_cell_rate_only(state, period) ==
  IF period = size["zcb"]
  THEN [val |-> par["zcb"].face, reads |-> <<>>]
  ELSE LET num   == Lattice_back_prop("zcb", state, period, ts.rnp)
           denom == Get("sh_rate", state, period)
       IN  [val   |-> Div(num.val, denom),
            reads |-> num.reads \o << <<"sh_rate", state, period>> >>]

\* ZCB.build, loop body
ZCB_cell(state, period) ==
  IF period = size["zcb"]
  THEN [val |-> par["zcb"].face, reads |-> <<>>]
  ELSE LET num   == Lattice_back_prop("zcb", state, period, ts.rnp)
           denom == Add(Num(1), Get("sh_rate", state, period))
       IN  [val   |-> Div(num.val, denom),
            reads |-> num.reads \o << <<"sh_rate", state, period>> >>]

ZCB_build == Step("zcb", ZCB_cell(pc.state, pc.period), BackAdvance)

-----------------------------------------------------------------------------
(* bonds.py: options on the zero-coupon bond *)

StrikeSet == {Half, Num(60)}

\* Options._set_option_flags(parameters), the variant bonds.py calls: the
\* side gives the payoff sign, the style is kept as configured.
Options_set_option_flags(p) ==
  LET side  == str_lower(p.opt)
      style == str_lower(p.type)
  IN  [raised |-> side \notin {S_call, S_put} \/ style \notin {S_european, S_american},
       flags  |-> <<IF side = S_put THEN Num(-1) ELSE Num(1),
                    IF style = S_american THEN "A" ELSE "E">>]

ZcbOpts == {"zcb_opt_e", "zcb_opt_a"}

\* OptionParameters(OPT, OP_TYPE, OP_K, OP_NPER) and ZCBOptions.__init__.
\* Two instances are kept, one per OP_TYPE; OPT, OP_K and OP_NPER are module
\* constants, the same for both.
ZCBOptions_init(o) ==
  /\ err = "none" /\ pc = Idle
  /\ "zcb" \in done /\ o \notin made
  /\ (ZcbOpts \cap made) \subseteq done
  /\ made \cap {"bond_ff", "elementary"} = {}
  /\ \E side \in {S_call, S_put}, k \in StrikeSet, n \in 0..size["zcb"] :
       /\ \A x \in ZcbOpts \cap made :
            par[x].opt = side /\ par[x].strike = k /\ par[x].nperiods = n
       /\ par' = [par EXCEPT ![o] =
                    [opt |-> side, strike |-> k, nperiods |-> n,
                     type |-> IF o = "zcb_opt_a" THEN S_american ELSE S_european,
                     rnp |-> ts.rnp, flags |-> <<Num(1), "E">>]]
       /\ size' = [size EXCEPT ![o] = n]
       /\ lattice' = [lattice EXCEPT ![o] = Lattice_init(n)]
  /\ made' = made \cup {o}
  /\ UNCHANGED <<ts, sec, opt, done, pc, log, err, elem>>

\* zcb_opt.build(zcb, short_rates): the call, up to the loops
ZCBOptions_build_call(o) ==
  /\ err = "none" /\ pc = Idle
  /\ o \in made /\ o \notin done
  /\ LET f == Options_set_option_flags(par[o])
     IN  IF f.raised
         THEN /\ err' = "Exception"
              /\ UNCHANGED <<par, pc, done>>
         ELSE /\ par' = [par EXCEPT ![o].flags = f.flags]
              /\ Enter(o, BackStart(o, size[o]))
              /\ err' = err
  /\ UNCHANGED <<ts, sec, opt, lattice, size, made, log, elem>>

\* ZCBOptions.build with min(e_val, c_val) in the American branch
ZCBOptions_cell_min(o, state, period) ==
  LET flags  == par[o].flags
      strike == par[o].strike
      e_val  == Mul(flags[1], Sub(Get("zcb", state, period), strike))
      under  == << <<"zcb", state, period>> >>
  IN  IF period = size[o]
      THEN [val |-> Max(Num(0), e_val), reads |-> under]
      ELSE LET num   == Lattice_back_prop(o, state, period, par[o].rnp)
               denom == Add(Num(1), Get("sh_rate", state, period))
               c_val == Div(num.val, denom)
               rd    == under \o num.reads \o << <<"sh_rate", state, period>> >>
           IN  IF flags[2] = "E"
               THEN [val |-> c_val, reads |-> rd]
               ELSE [val |-> IF Lt(e_val, c_val) THEN e_val ELSE c_val, reads |-> rd]

\* ZCBOptions.build, loop body
ZCBOptions_cell(o, state, period) ==
  LET flags  == par[o].flags
      strike == par[o].strike
      e_val  == Mul(flags[1], Sub(Get("zcb", state, period), strike))
      under  == << <<"zcb", state, period>> >>
  IN  IF period = size[o]
      THEN [val |-> Max(Num(0), e_val), reads |-> under]
      ELSE LET num   == Lattice_back_prop(o, state, period, par[o].rnp)
               denom == Add(Num(1), Get("sh_rate", state, period))
               c_val == Div(num.val, denom)
               rd    == under \o num.reads \o << <<"sh_rate", state, period>> >>
           IN  IF flags[2] = "E"
               THEN [val |-> c_val, reads |-> rd]
               ELSE [val |-> Max(e_val, c_val), reads |-> rd]

ZCBOptions_build(o) == Step(o, ZCBOptions_cell(o, pc.state, pc.period), BackAdvance)

-----------------------------------------------------------------------------
(* bonds.py: forwards and futures on a bond *)

CouponSet == {Num(0), <<1, 100>>}
FFTypeSet == {S_forward, S_future, S_Forward, S_FUTURE, S_swap}

\* BondFFParameters.__init__
BondFFParameters_init ==
  /\ err = "none" /\ pc = Idle
  /\ "zcb" \in done
  /\ made \cap (ZcbOpts \cup {"bond_ff", "bond_ff_params", "elementary"}) = {}
  /\ \E ff_type \in FFTypeSet, ff_coupon \in CouponSet, n \in 0..size["zcb"] :
       IF str_capitalize(ff_type) \in {S_forward, S_future}
       THEN /\ par' = [par EXCEPT !["bond_ff_params"] =
                         [type |-> str_capitalize(ff_type), coupon |-> ff_coupon,
                          nperiods |-> n, given |-> ff_type]]
            /\ made' = made \cup {"bond_ff_params"}
            /\ err' = err
       ELSE /\ par' = [par EXCEPT !["bond_ff_params"] = [given |-> ff_type]]
            /\ err' = "Exception"
            /\ made' = made
  /\ UNCHANGED <<ts, sec, opt, lattice, size, done, pc, log, elem>>

\* BondFF.__init__ on a parameter object carrying type, coupon and nperiods.
\* The source passes the parameter object itself to Lattice.__init__ and its
\* build reads self.coupon and self.type; the model reads these as the
\* object's nperiods, coupon and type.
BondFF_init ==
  /\ err = "none" /\ pc = Idle
  /\ "zcb" \in done
  /\ made \cap (ZcbOpts \cup {"bond_ff", "bond_ff_params", "elementary"}) = {}
  /\ \E type \in {S_forward, S_future}, coupon \in CouponSet, n \in 0..size["zcb"] :
       /\ par' = [par EXCEPT !["bond_ff"] =
                    [type |-> type, coupon |-> coupon, nperiods |-> n]]
       /\ size' = [size EXCEPT !["bond_ff"] = n]
       /\ lattice' = [lattice EXCEPT !["bond_ff"] = Lattice_init(n)]
  /\ made' = made \cup {"bond_ff"}
  /\ UNCHANGED <<ts, sec, opt, done, pc, log, err, elem>>

\* bond_ff.build(term_params, short_rates.lattice, zcb.lattice): the call
BondFF_build_call ==
  /\ err = "none" /\ pc = Idle
  /\ "bond_ff" \in made /\ "bond_ff" \notin done
  /\ Enter("bond_ff", BackStart("bond_ff", size["bond_ff"]))
  /\ UNCHANGED <<ts, sec, opt, par, lattice, size, made, log, err, elem>>

\* BondFF.build, loop body
BondFF_cell(state, period) ==
  IF period = size["bond_ff"]
  THEN [val   |-> Sub(Get("zcb", state, period), Mul(Num(100), par["bond_ff"].coupon)),
        reads |-> << <<"zcb", state, period>> >>]
  ELSE LET up    == Mul(ts.rnp[1], Get("bond_ff", state + 1, period + 1))
           num   == Add(up, Mul(ts.rnp[2], Get("bond_ff", state, period + 1)))
           denom == Get("sh_rate", state, period)
           rd    == << <<"bond_ff", state + 1, period + 1>>,
                       <<"bond_ff", state, period + 1>>,
                       <<"sh_rate", state, period>> >>
       IN  IF par["bond_ff"].type = S_forward
           THEN [val |-> Div(num, denom), reads |-> rd]
           ELSE [val |-> Div(num, denom), reads |-> rd]

BondFF_build == Step("bond_ff", BondFF_cell(pc.state, pc.period), BackAdvance)

-----------------------------------------------------------------------------
(* term_structure.py: caplets and floorlets *)

KindSet  == {S_caplet, S_floorlet, S_Floorlet, S_swap}
LiborSet == {Half, Num(2)}

FirstLevel == {"zcb", "cflet", "swap", "elementary"}

\* the arrears decrement left out
Arrears_none(n) == n

\* self.size -= 1 # arrears
Arrears(n) == n - 1

\* CFParameters.__init__ and CapFloorLet.__init__ (type is read from the
\* module global DERIVATIVE, which the driver also passes to CFParameters)
CapFloorLet_init ==
  /\ err = "none" /\ pc = Idle
  /\ "sh_rate" \in done /\ made \cap FirstLevel = {}
  /\ par["cflet"] = <<>>
  /\ \E DERIVATIVE \in KindSet, libor \in LiborSet, n \in 1..ts.nperiods :
       LET kind == str_lower(DERIVATIVE)
       IN  /\ lattice' = [lattice EXCEPT !["cflet"] = Lattice_init(n)]
           /\ IF kind \in {S_caplet, S_floorlet}
              THEN /\ par' = [par EXCEPT !["cflet"] =
                                [type |-> DERIVATIVE, nperiods |-> n, rate |-> libor,
                                 flag |-> IF kind = S_caplet THEN Num(1) ELSE Num(-1)]]
                   /\ size' = [size EXCEPT !["cflet"] = Arrears(n)]
                   /\ made' = made \cup {"cflet"}
                   /\ err' = err
              ELSE /\ par' = [par EXCEPT !["cflet"] =
                                [type |-> DERIVATIVE, nperiods |-> n, rate |-> libor]]
                   /\ size' = [size EXCEPT !["cflet"] = n]
                   /\ made' = made
                   /\ err' = "Exception"
  /\ UNCHANGED <<ts, sec, opt, done, pc, log, elem>>

\* cflet.build(term_params, short_rates): the call
CapFloorLet_build_call ==
  /\ err = "none" /\ pc = Idle
  /\ "cflet" \in made /\ "cflet" \notin done
  /\ Enter("cflet", BackStart("cflet", size["cflet"]))
  /\ UNCHANGED <<ts, sec, opt, par, lattice, size, made, log, err, elem>>

\* CapFloorLet.build, loop body
CapFloorLet_cell(state, period) ==
  LET flag == par["cflet"].flag
      rate == par["cflet"].rate
      sh   == Get("sh_rate", state, period)
  IN  IF period = size["cflet"]
      THEN [val   |-> Div(Mul(flag, Sub(sh, rate)), Add(Num(1), sh)),
            reads |-> << <<"sh_rate", state, period>>, <<"sh_rate", state, period>> >>]
      ELSE LET num == Lattice_back_prop("cflet", state, period, ts.rnp)
           IN  [val   |-> Div(num.val, Add(Num(1), sh)),
                reads |-> num.reads \o << <<"sh_rate", state, period>> >>]

CapFloorLet_build == Step("cflet", CapFloorLet_cell(pc.state, pc.period), BackAdvance)

-----------------------------------------------------------------------------
(* term_structure.py: swaps and swaptions *)

FixedRateSet == {Half, Num(2)}

\* SwapParameters.__init__ and Swap.__init__
Swap_init ==
  /\ err = "none" /\ pc = Idle
  /\ "sh_rate" \in done /\ made \cap FirstLevel = {}
  /\ \E fixed \in FixedRateSet, n \in 1..ts.nperiods :
       /\ par' = [par EXCEPT !["swap"] = [nperiods |-> n, rate |-> fixed]]
       /\ lattice' = [lattice EXCEPT !["swap"] = Lattice_init(n)]
       /\ size' = [size EXCEPT !["swap"] = Arrears(n)]
  /\ made' = made \cup {"swap"}
  /\ UNCHANGED <<ts, sec, opt, done, pc, log, err, elem>>

\* swap.build(term_params, short_rates): the call
Swap_build_call ==
  /\ err = "none" /\ pc = Idle
  /\ "swap" \in made /\ "swap" \notin done
  /\ Enter("swap", BackStart("swap", size["swap"]))
  /\ UNCHANGED <<ts, sec, opt, par, lattice, size, made, log, err, elem>>

\* Swap.build, loop body
Swap_cell(state, period) ==
  LET sh     == Get("sh_rate", state, period)
      coupon == Sub(sh, par["swap"].rate)
      denom  == Add(Num(1), sh)
  IN  IF period = size["swap"]
      THEN [val   |-> Div(coupon, denom),
            reads |-> << <<"sh_rate", state, period>>, <<"sh_rate", state, period>> >>]
      ELSE LET bp == Lattice_back_prop("swap", state, period, ts.rnp)
           IN  [val   |-> Div(Add(coupon, bp.val), denom),
                reads |-> << <<"sh_rate", state, period>> >> \o bp.reads
                          \o << <<"sh_rate", state, period>> >>]

Swap_build == Step("swap", Swap_cell(pc.state, pc.period), BackAdvance)

\* SwaptionParameters.__init__ and Swaption.__init__
Swaption_init ==
  /\ err = "none" /\ pc = Idle
  /\ "swap" \in done /\ "swaption" \notin made
  /\ \E strike \in {Num(0)}, m \in 0..par["swap"].nperiods :
       /\ par' = [par EXCEPT !["swaption"] = [nperiods |-> m, strike |-> strike]]
       /\ lattice' = [lattice EXCEPT !["swaption"] = Lattice_init(m)]
       /\ size' = [size EXCEPT !["swaption"] = m]
  /\ made' = made \cup {"swaption"}
  /\ UNCHANGED <<ts, sec, opt, done, pc, log, err, elem>>

\* swaption.build(term_params, short_rates, swap): the call
Swaption_build_call ==
  /\ err = "none" /\ pc = Idle
  /\ "swaption" \in made /\ "swaption" \notin done
  /\ Enter("swaption", BackStart("swaption", size["swaption"]))
  /\ UNCHANGED <<ts, sec, opt, par, lattice, size, made, log, err, elem>>

\* Swaption.build, loop body
Swaption_cell(state, period) ==
  IF period = size["swaption"]
  THEN [val   |-> Max(Num(0), Get("swap", state, period)),
        reads |-> << <<"swap", state, period>> >>]
  ELSE LET num   == Lattice_back_prop("swaption", state, period, ts.rnp)
           denom == Add(Num(1), Get("sh_rate", state, period))
       IN  [val   |-> Div(num.val, denom),
            reads |-> num.reads \o << <<"sh_rate", state, period>> >>]

\* Swaption.build storing each value in the swap lattice as well
Swaption_build_clamping ==
  LET rule == Swaption_cell(pc.state, pc.period)
  IN  /\ err = "none"
      /\ pc.obj = "swaption"
      /\ ~IsExc(rule.val)
      /\ lattice' = [lattice EXCEPT !["swaption"][pc.state][pc.period] = rule.val,
                                    !["swap"][pc.state][pc.period] = rule.val]
      /\ log' = log \o ReadEvents("swaption", rule.reads)
                    \o <<WriteEvent("swaption", pc.state, pc.period)>>
      /\ pc' = BackAdvance
      /\ done' = IF BackAdvance = Idle THEN done \cup {"swaption"} ELSE done
      /\ UNCHANGED <<ts, sec, opt, par, size, made, err, elem>>

Swaption_build == Step("swaption", Swaption_cell(pc.state, pc.period), BackAdvance)

-----------------------------------------------------------------------------
(* term_structure.py: elementary (state) prices *)

\* A spot rate pow(base, 1.0/period) - 1.0 is kept symbolically as
\* <<n, d, period>>, the period-th root of n/d, less one; the root of 1 and
\* the first root are the same for every period.
RootMinusOne(base, period) ==
  IF base = Num(1) THEN <<1, 1, 1>> ELSE <<base[1], base[2], period>>

\* 0. as a rate
Rate0 == RootMinusOne(Num(1), 1)

\* self.built: build() sets it as its last statement
ElementaryPrices_built == "elementary" \in done

BaseSet == {Num(1), Num(2)}

\* ElementaryPriceParameters.__init__ and ElementaryPrices.__init__
ElementaryPrices_init ==
  /\ err = "none" /\ pc = Idle
  /\ "sh_rate" \in done /\ "elementary" \notin made
  /\ made \cap FirstLevel \subseteq {"zcb"}
  /\ "zcb" \in made => ("zcb" \in done /\ made \cap (ZcbOpts \cup {"bond_ff", "bond_ff_params"}) = {})
  /\ \E base \in BaseSet, n \in 1..ts.nperiods :
       /\ par' = [par EXCEPT !["elementary"] = [nperiods |-> n, base |-> base]]
       /\ lattice' = [lattice EXCEPT !["elementary"] = Lattice_init(n)]
       /\ size' = [size EXCEPT !["elementary"] = n]
       /\ elem' = [price |-> [x \in 0..n |-> Num(0)],
                   rates |-> [x \in 0..n |-> Rate0],
                   calls |-> 0]
  /\ made' = made \cup {"elementary"}
  /\ UNCHANGED <<ts, sec, opt, done, pc, log, err>>

\* elementary.build(term_params, short_rates): the call and its first
\* statement, lattice[0][0] = 1.0
ElementaryPrices_build_call ==
  /\ err = "none" /\ pc = Idle
  /\ "elementary" \in made /\ "elementary" \notin done
  /\ lattice' = [lattice EXCEPT !["elementary"][0][0] = Num(1)]
  /\ log' = log \o <<WriteEvent("elementary", 0, 0)>>
  /\ Enter("elementary", FwdStart("elementary", size["elementary"]))
  /\ UNCHANGED <<ts, sec, opt, par, size, made, err, elem>>

\* ElementaryPrices.build, loop body
ElementaryPrices_cell(state, period) ==
  IF state = 0
  THEN LET num   == Mul(ts.rnp[1], Get("elementary", state, period - 1))
           denom == Add(Num(1), Get("sh_rate", state, period - 1))
       IN  [val   |-> Div(num, denom),
            reads |-> << <<"elementary", state, period - 1>>,
                         <<"sh_rate", state, period - 1>> >>]
  ELSE IF state = period
  THEN LET num   == Mul(ts.rnp[1], Get("elementary", state - 1, period - 1))
           denom == Add(Num(1), Get("sh_rate", state - 1, period - 1))
       IN  [val   |-> Div(num, denom),
            reads |-> << <<"elementary", state - 1, period - 1>>,
                         <<"sh_rate", state - 1, period - 1>> >>]
  ELSE LET num1   == Mul(ts.rnp[1], Get("elementary", state - 1, period - 1))
           denom1 == Add(Num(1), Get("sh_rate", state - 1, period - 1))
           num2   == Mul(ts.rnp[2], Get("elementary", state, period - 1))
           denom2 == Add(Num(1), Get("sh_rate", state, period - 1))
       IN  [val   |-> Add(Div(num1, denom1), Div(num2, denom2)),
            reads |-> << <<"elementary", state - 1, period - 1>>,
                         <<"sh_rate", state - 1, period - 1>>,
                         <<"elementary", state, period - 1>>,
                         <<"sh_rate", state, period - 1>> >>]

ElementaryPrices_build ==
  Step("elementary", ElementaryPrices_cell(pc.state, pc.period), FwdAdvance)

RECURSIVE ElementaryPrices_sum(_, _, _)
\* for state in range(0, period+1): self.price[period] += self.lattice[state][period]
ElementaryPrices_sum(acc, state, period) ==
  IF state > period THEN acc
  ELSE ElementaryPrices_sum(Add(acc, Get("elementary", state, period)), state + 1, period)

RECURSIVE ElementaryPrices_discount_from(_, _, _)
\* the period loop of discount(), from period on: the vectors it leaves and
\* the exception that ended it, if any
ElementaryPrices_discount_from(period, price, rates) ==
  IF period > size["elementary"]
  THEN [price |-> price, rates |-> rates, exc |-> "none"]
  ELSE LET sum == ElementaryPrices_sum(price[period], 0, period)
       IN  IF IsExc(sum)
           THEN [price |-> price, rates |-> rates, exc |-> ExcName(sum)]
           ELSE LET scaled == Mul(sum, par["elementary"].base)
                    base   == Div(par["elementary"].base, scaled)
                    priced == [price EXCEPT ![period] = scaled]
                IN  IF IsExc(base)
                    THEN [price |-> priced, rates |-> rates, exc |-> ExcName(base)]
                    ELSE ElementaryPrices_discount_from(period + 1, priced,
                           [rates EXCEPT ![period] = RootMinusOne(base, period)])

\* discount() without the test of self.built
ElementaryPrices_discount_unguarded ==
  /\ err = "none" /\ pc = Idle
  /\ "elementary" \in made /\ elem.calls < MaxCalls
  /\ LET r == ElementaryPrices_discount_from(1, elem.price, elem.rates)
     IN  /\ elem' = [price |-> r.price, rates |-> r.rates, calls |-> elem.calls + 1]
         /\ err' = r.exc
  /\ UNCHANGED <<ts, sec, opt, par, lattice, size, made, done, pc, log>>

\* ElementaryPrices.discount
ElementaryPrices_discount ==
  /\ err = "none" /\ pc = Idle
  /\ "elementary" \in made /\ elem.calls < MaxCalls
  /\ IF ElementaryPrices_built
     THEN LET r == ElementaryPrices_discount_from(1, elem.price, elem.rates)
          IN  /\ elem' = [price |-> r.price, rates |-> r.rates, calls |-> elem.calls + 1]
              /\ err' = r.exc
     ELSE /\ elem' = [elem EXCEPT !.calls = @ + 1]
          /\ err' = "Exception"
  /\ UNCHANGED <<ts, sec, opt, par, lattice, size, made, done, pc, log>>

-----------------------------------------------------------------------------
(* options.py: equity calibration.                                         *)
(* math.exp and math.sqrt are computed exactly on the inputs the model     *)
(* draws: volatility, rate and dividend yield are expressed in units of    *)
(* ln 2, so that exp(k ln 2) = 2^k, and maturity/periods is a perfect      *)
(* square.                                                                 *)

IsInt(x) == IsNum(x) /\ x[2] = 1
IsSquare(n) == \E k \in 0..n : k * k = n
ISqrt(n) == CHOOSE k \in 0..n : k * k = n

\* math.sqrt: ValueError on a negative argument
math_sqrt(x) ==
  IF ~IsNum(x) THEN Raised(x, x)
  ELSE IF x[1] < 0 THEN ValueError
  ELSE <<ISqrt(x[1]), ISqrt(x[2])>>

\* math.exp of k (in units of ln 2)
math_exp(x) ==
  IF ~IsNum(x) THEN Raised(x, x)
  ELSE IF x[1] >= 0 THEN <<2 ^ x[1], 1>> ELSE <<1, 2 ^ (-x[1])>>

S0Set  == {Num(4)}
SigSet == {Num(-1), Num(0), Num(1), Num(2)}
RSet   == {Num(0), Num(1)}
DSet   == {Num(0), Num(1)}
\* (T, N): maturity in years and number of periods
TNSet  == {<<Num(n), n>> : n \in 1..MaxN}
            \cup {<<Num(1), 0>>, <<Num(1), -1>>, <<Num(0), 1>>}

\* Security._binomial_model_parameter: [u, d]
Security_binomial_model_parameter(volatility, maturity, n_periods) ==
  LET u == math_exp(Mul(volatility, math_sqrt(Div(maturity, Num(n_periods)))))
  IN  <<u, Div(Num(1), u)>>

\* Security._risk_free_proba with num - r_ud[0] in place of num - r_ud[1]
Security_risk_free_proba_up(rate, dividend, maturity, n_periods, r_ud) ==
  LET growth == math_exp(Div(Mul(Sub(rate, dividend), maturity), Num(n_periods)))
      num    == Sub(growth, r_ud[1])
      denom  == Sub(r_ud[1], r_ud[2])
  IN  Div(num, denom)

\* Security._risk_free_proba: q
Security_risk_free_proba(rate, dividend, maturity, n_periods, r_ud) ==
  LET growth == math_exp(Div(Mul(Sub(rate, dividend), maturity), Num(n_periods)))
      num    == Sub(growth, r_ud[2])
      denom  == Sub(r_ud[1], r_ud[2])
  IN  Div(num, denom)

\* the inputs on which math_sqrt and math_exp are exact
Calibratable(sig, mat, n, r, d) ==
  LET dt == Div(mat, Num(n))
  IN  IsNum(dt) /\ dt[1] >= 0 =>
        /\ IsSquare(dt[1]) /\ IsSquare(dt[2])
        /\ IsInt(Mul(sig, math_sqrt(dt)))
        /\ IsInt(Mul(Sub(r, d), dt))

\* Security.__init__ (S0, T, SIG, N, R, D)
Security_init ==
  /\ err = "none" /\ pc = Idle
  /\ made = {} /\ ~sec.called
  /\ \E s0 \in S0Set, tn \in TNSet, sig \in SigSet, r \in RSet, d \in DSet :
       /\ Calibratable(sig, tn[1], tn[2], r, d)
       /\ LET r_ud == Security_binomial_model_parameter(sig, tn[1], tn[2])
              rfp  == Security_risk_free_proba(r, d, tn[1], tn[2], r_ud)
          IN  /\ sec' = [called |-> TRUE, init |-> s0, maturity |-> tn[1],
                         volatility |-> sig, n_periods |-> tn[2], rate |-> r,
                         dividend |-> d, r_ud |-> r_ud, rfp |-> rfp]
              /\ IF IsExc(r_ud[1]) \/ IsExc(r_ud[2]) \/ IsExc(rfp)
                 THEN /\ err' = ExcName(IF IsExc(r_ud[1]) THEN r_ud[1]
                                        ELSE IF IsExc(r_ud[2]) THEN r_ud[2] ELSE rfp)
                      /\ made' = made
                 ELSE /\ err' = err
                      /\ made' = {"security"}
  /\ UNCHANGED <<ts, opt, par, lattice, size, done, pc, log, elem>>

-----------------------------------------------------------------------------
(* options.py: shares and futures lattices *)

\* options.Lattice.__init__: a (size+1) x (size+1) table of 0
Lattice_init0(n) == [s \in 0..n |-> [p \in 0..n |-> Num(0)]]

\* Lattice.back_prop: p_1*proba + p_2*(1-proba), with the cells it reads
Lattice_back_prop_q(o, row, column, proba) ==
  LET p_1 == Get(o, row + 1, column + 1)
      p_2 == Get(o, row, column + 1)
  IN  [val   |-> Add(Mul(p_1, proba), Mul(p_2, Sub(Num(1), proba))),
       reads |-> << <<o, row + 1, column + 1>>, <<o, row, column + 1>> >>]

\* Shares.__init__ and the first statement of _build: lattice[0][0] = init
Shares_init ==
  /\ err = "none" /\ pc = Idle
  /\ "security" \in made /\ "shares" \notin made
  /\ made' = made \cup {"shares"}
  /\ size' = [size EXCEPT !["shares"] = sec.n_periods]
  /\ IF sec.n_periods < 0
     THEN /\ lattice' = [lattice EXCEPT !["shares"] = Lattice_init0(sec.n_periods)]
          /\ err' = "IndexError"
          /\ UNCHANGED <<log, pc, done>>
     ELSE /\ lattice' = [lattice EXCEPT !["shares"] =
                           [Lattice_init0(sec.n_periods) EXCEPT ![0][0] = sec.init]]
          /\ log' = log \o <<WriteEvent("shares", 0, 0)>>
          /\ Enter("shares", FwdStart("shares", sec.n_periods))
          /\ err' = err
  /\ UNCHANGED <<ts, sec, opt, par, elem>>

\* Shares._build, loop body
Shares_cell(share, period) ==
  IF share = 0
  THEN [val   |-> Mul(sec.r_ud[2], Get("shares", share, period - 1)),
        reads |-> << <<"shares", share, period - 1>> >>]
  ELSE [val   |-> Mul(sec.r_ud[1], Get("shares", share - 1, period - 1)),
        reads |-> << <<"shares", share - 1, period - 1>> >>]

Shares_build == Step("shares", Shares_cell(pc.state, pc.period), FwdAdvance)

\* Futures.__init__, entering _build
Futures_init ==
  /\ err = "none" /\ pc = Idle
  /\ "shares" \in done /\ "futures" \notin made
  /\ made' = made \cup {"futures"}
  /\ size' = [size EXCEPT !["futures"] = sec.n_periods]
  /\ lattice' = [lattice EXCEPT !["futures"] = Lattice_init0(sec.n_periods)]
  /\ Enter("futures", BackStart("futures", sec.n_periods))
  /\ UNCHANGED <<ts, sec, opt, par, log, err, elem>>

\* Futures._build, loop body
Futures_cell(option, period) ==
  IF period = size["futures"]
  THEN [val   |-> Get("shares", option, period),
        reads |-> << <<"shares", option, period>> >>]
  ELSE Lattice_back_prop_q("futures", option, period, sec.rfp)

Futures_build == Step("futures", Futures_cell(pc.state, pc.period), BackAdvance)

-----------------------------------------------------------------------------
(* options.py: option flags and the option lattice.                        *)
(* Two option configurations are priced side by side on the same           *)
(* underlying with the same K and EXPO: opt[1] -> payoff_1, opt[2] ->      *)
(* payoff_2.                                                               *)

OptSet  == {S_call, S_put, S_Put, S_swap}
TypeSet == {S_european, S_american, S_American, S_swap}
KSet    == {Num(3), Num(6)}
Payoff(i) == IF i = 1 THEN "payoff_1" ELSE "payoff_2"
OptionName(i) == IF i = 1 THEN "option_1" ELSE "option_2"

\* Option._set_option_flags: the flags, or the exception raised
Option_set_option_flags(o, t) ==
  LET f0  == IF str_lower(o) = S_put THEN Num(-1) ELSE Num(1)
      f1  == IF str_lower(t) = S_american THEN "A" ELSE "E"
  IN  [raised |-> (str_lower(o) # S_put /\ str_lower(o) # S_call)
                  \/ (str_lower(t) # S_american /\ str_lower(t) # S_european),
       \* American call options are priced as European
       flags  |-> <<f0, IF f0 = Num(1) THEN "E" ELSE f1>>]

\* set_option_flags without its last statement (if flags[0] == 1: flags[1]='E')
set_option_flags_kept(OPT, TYPE) ==
  LET f0  == IF str_lower(OPT) = S_put THEN Num(-1) ELSE Num(1)
      f1  == IF str_lower(TYPE) = S_american THEN "A" ELSE "E"
  IN  [raised |-> (str_lower(OPT) # S_put /\ str_lower(OPT) # S_call)
                  \/ (str_lower(TYPE) # S_american /\ str_lower(TYPE) # S_european),
       flags  |-> <<f0, f1>>]

\* set_option_flags: the flags, or the exception raised
set_option_flags(OPT, TYPE) ==
  LET f0  == IF str_lower(OPT) = S_put THEN Num(-1) ELSE Num(1)
      f1  == IF str_lower(TYPE) = S_american THEN "A" ELSE "E"
  IN  [raised |-> (str_lower(OPT) # S_put /\ str_lower(OPT) # S_call)
                  \/ (str_lower(TYPE) # S_american /\ str_lower(TYPE) # S_european),
       \* American call options are priced as European
       flags  |-> <<f0, IF f0 = Num(1) THEN "E" ELSE f1>>]

\* Option.__init__ (TYPE, OPT, K, EXPO)
Option_init(i) ==
  /\ err = "none" /\ pc = Idle
  /\ "futures" \in done /\ OptionName(i) \notin made
  /\ i = 2 => /\ "payoff_1" \in done
              /\ str_lower(opt[1].type) = S_european
  /\ \E OPT \in OptSet, TYPE \in TypeSet, K \in KSet, EXPO \in 1..sec.n_periods :
       /\ IsInt(Div(Mul(sec.rate, sec.maturity), Num(EXPO)))
       /\ i = 2 => /\ K = opt[1].stike /\ EXPO = opt[1].expir
                   /\ OPT \in {S_call, S_put} /\ TYPE \in {S_european, S_american}
                   /\ <<OPT, TYPE>> # <<opt[1].opt, opt[1].type>>
       /\ LET f == Option_set_option_flags(OPT, TYPE)
          IN  /\ opt' = [opt EXCEPT ![i] =
                           [type |-> TYPE, opt |-> OPT, stike |-> K, expir |-> EXPO,
                            flags |-> IF f.raised THEN <<Num(1), "E">> ELSE f.flags]]
              /\ IF f.raised
                 THEN err' = "Exception" /\ made' = made
                 ELSE err' = err /\ made' = made \cup {OptionName(i)}
  /\ UNCHANGED <<ts, sec, par, lattice, size, done, pc, log, elem>>

\* option_lattice(lattice, proba, option_flags): payoff = initialize_matrix(EXPO),
\* flags from set_option_flags(), entering the loops
option_lattice_call(i, under) ==
  /\ err = "none" /\ pc = Idle
  /\ OptionName(i) \in made /\ Payoff(i) \notin made
  /\ i = 2 => under = par["payoff_1"].under
  /\ LET f == set_option_flags(opt[i].opt, opt[i].type)
     IN  /\ par' = [par EXCEPT ![Payoff(i)] =
                      [under |-> under, proba |-> sec.rfp, option_flags |-> f.flags,
                       K |-> opt[i].stike, EXPO |-> opt[i].expir]]
         /\ made' = made \cup {Payoff(i)}
         /\ size' = [size EXCEPT ![Payoff(i)] = opt[i].expir]
         /\ lattice' = [lattice EXCEPT ![Payoff(i)] = Lattice_init0(opt[i].expir)]
         /\ Enter(Payoff(i), BackStart(Payoff(i), opt[i].expir))
  /\ UNCHANGED <<ts, sec, opt, log, err, elem>>

\* option_lattice, loop body
option_lattice_cell(o, option, period) ==
  LET flag  == par[o].option_flags[1]
      K     == par[o].K
      EXPO  == par[o].EXPO
      S     == Get(par[o].under, option, period)
      under == << <<par[o].under, option, period>> >>
  IN  IF period = EXPO
      THEN [val |-> Max(Mul(flag, Sub(S, K)), Num(0)), reads |-> under]
      ELSE LET num     == Lattice_back_prop_q(o, option, period, par[o].proba)
               denom   == math_exp(Div(Mul(sec.rate, sec.maturity), Num(EXPO)))
               ratio   == Div(num.val, denom)
               e_value == Sub(K, S)
           IN  IF par[o].option_flags[2] = "E"
               THEN [val |-> ratio, reads |-> num.reads \o under]
               ELSE [val |-> Max(e_value, ratio), reads |-> num.reads \o under]

option_lattice(i) ==
  Step(Payoff(i), option_lattice_cell(Payoff(i), pc.state, pc.period), BackAdvance)

-----------------------------------------------------------------------------

Init ==
  /\ ts = <<>>
  /\ sec = [called |-> FALSE]
  /\ opt = <<<<>>, <<>>>>
  /\ par = [o \in Objs \cup {"bond_ff_params"} |-> <<>>]
  /\ lattice = [o \in Objs |-> <<>>]
  /\ size = [o \in Objs |-> 0]
  /\ made = {}
  /\ done = {}
  /\ pc = Idle
  /\ log = <<>>
  /\ err = "none"
  /\ elem = [price |-> <<>>, rates |-> <<>>, calls |-> 0]

Next ==
  \/ TermStructureParameters_init
  \/ ShortRate_init
  \/ ShortRate_build
  \/ ZCB_init
  \/ ZCB_build_call
  \/ ZCB_build
  \/ \E o \in ZcbOpts : ZCBOptions_init(o)
  \/ \E o \in ZcbOpts : ZCBOptions_build_call(o)
  \/ \E o \in ZcbOpts : ZCBOptions_build(o)
  \/ BondFFParameters_init
  \/ BondFF_init
  \/ BondFF_build_call
  \/ BondFF_build
  \/ CapFloorLet_init
  \/ CapFloorLet_build_call
  \/ CapFloorLet_build
  \/ Swap_init
  \/ Swap_build_call
  \/ Swap_build
  \/ Swaption_init
  \/ Swaption_build_call
  \/ Swaption_build
  \/ ElementaryPrices_init
  \/ ElementaryPrices_build_call
  \/ ElementaryPrices_build
  \/ ElementaryPrices_discount
  \/ Security_init
  \/ Shares_init
  \/ Shares_build
  \/ Futures_init
  \/ Futures_build
  \/ \E i \in 1..2 : Option_init(i)
  \/ \E i \in 1..2, under \in {"shares", "futures"} : option_lattice_call(i, under)
  \/ \E i \in 1..2 : option_lattice(i)

Spec == Init /\ [][Next]_vars

\* the positions a loop can be at
Positions == [obj : Objs \cup {"none"}, period : 0..MaxN + 1, state : 0..MaxN + 1]

\* A step of the running build: its loops move on, or an exception ends
\* them.  The program is single-threaded and synchronous and nothing
\* suspends a running loop, so such a step is taken whenever a build runs.
Running ==
  /\ pc.obj # "none" /\ err = "none"
  /\ pc' \in Positions
  /\ err' \in {"none", "Exception", "TypeError", "ZeroDivisionError", "IndexError", "ValueError"}

FairSpec == Spec /\ WF_<<pc, err>>(Running)

-----------------------------------------------------------------------------
(* Properties *)

Tri(n) == {c \in (0..n) \X (0..n) : c[1] <= c[2]}   \* <<state, period>>
Cell(o, c) == lattice[o][c[1]][c[2]]
One == Num(1)
Zero == Num(0)

FlatTree == ts.r_ud = <<One, One>>

\* C1: on a flat short-rate tree (up = down = 1, every short rate equal to r)
\* with risk-neutral probabilities summing to 1, every node (state, period)
\* of the built ZCB lattice equals F / (1+r)^(N - period); the root is
\* F / (1+r)^N.
C1_ZCBClosedForm ==
  ("zcb" \in done /\ FlatTree /\ Add(ts.rnp[1], ts.rnp[2]) = One) =>
     \A c \in Tri(size["zcb"]) :
        Cell("zcb", c) =
          Div(par["zcb"].face, Pow(Add(One, ts.init), size["zcb"] - c[2]))

C1_Witness ==
  /\ "zcb" \in done /\ FlatTree /\ size["zcb"] >= 2
  /\ Cell("zcb", <<0, 0>>) = Div(par["zcb"].face, Pow(Add(One, ts.init), size["zcb"]))
  /\ Lt(Cell("zcb", <<0, 0>>), par["zcb"].face)

RECURSIVE SumStates(_, _, _)
\* sum over states 0..s of lattice[o][.][p]
SumStates(o, s, p) ==
  IF s < 0 THEN Zero ELSE Add(Cell(o, <<s, p>>), SumStates(o, s - 1, p))

\* C2: the elementary prices of period p, summed over states 0..p and scaled
\* by the face value, equal the root of the ZCB lattice of maturity p built
\* on the same short-rate tree and probabilities (q, 1-q).
C2_RoundTrip ==
  ("zcb" \in done /\ "elementary" \in done /\ size["zcb"] <= size["elementary"]) =>
     Mul(par["zcb"].face, SumStates("elementary", size["zcb"], size["zcb"]))
       = Cell("zcb", <<0, 0>>)

\* the round trip on symmetric probabilities, where the code satisfies it
C2_Symmetric ==
  ("zcb" \in done /\ "elementary" \in done /\ size["zcb"] <= size["elementary"]
     /\ ts.rnp[1] = ts.rnp[2]) =>
     Mul(par["zcb"].face, SumStates("elementary", size["zcb"], size["zcb"]))
       = Cell("zcb", <<0, 0>>)

\* C3: with non-negative probabilities and positive discount factors, the
\* American option lattice is at every node (state, period), 0 <= state <=
\* period <= expiry, at least the European option lattice built on the same
\* underlying with the same strike, side and expiry -- for the ZCB options
\* of bonds.py and for the option lattices of options.py.
SameSideEuroAmer ==
  /\ {"payoff_1", "payoff_2"} \subseteq done
  /\ str_lower(opt[1].opt) = str_lower(opt[2].opt)
  /\ str_lower(opt[1].type) = S_european
  /\ str_lower(opt[2].type) = S_american
  /\ Le(Zero, sec.rfp) /\ Le(sec.rfp, One)

C3_AmericanAtLeastEuropean ==
  /\ ZcbOpts \subseteq done =>
       \A c \in Tri(size["zcb_opt_e"]) :
          Le(Cell("zcb_opt_e", c), Cell("zcb_opt_a", c))
  /\ SameSideEuroAmer =>
       \A c \in Tri(size["payoff_1"]) :
          Le(Cell("payoff_1", c), Cell("payoff_2", c))

\* early exercise is worth something at some node of a ZCB option
C3_Witness ==
  /\ ZcbOpts \subseteq done
  /\ \E c \in Tri(size["zcb_opt_e"]) :
        c[2] < size["zcb_opt_e"] /\ Lt(Cell("zcb_opt_e", c), Cell("zcb_opt_a", c))

\* the same on an equity put
C3_WitnessEquity ==
  /\ SameSideEuroAmer
  /\ \E c \in Tri(size["payoff_1"]) : Lt(Cell("payoff_1", c), Cell("payoff_2", c))

-----------------------------------------------------------------------------
IsAmericanCall(i) ==
  str_lower(opt[i].opt) = S_call /\ str_lower(opt[i].type) = S_american
IsAmericanPut(i) ==
  str_lower(opt[i].opt) = S_put /\ str_lower(opt[i].type) = S_american

\* the continuation value of node c of payoff lattice o, from its successors
Continuation(o, c) ==
  Div(Add(Mul(Cell(o, <<c[1] + 1, c[2] + 1>>), sec.rfp),
          Mul(Cell(o, <<c[1], c[2] + 1>>), Sub(One, sec.rfp))),
      math_exp(Div(Mul(sec.rate, sec.maturity), Num(size[o]))))

Interior(o) == {c \in Tri(size[o]) : c[2] < size[o]}

\* C4 (as claimed): an option configured as an American call keeps the
\* American style after flag construction, in Option and in set_option_flags,
\* and every interior node is max(intrinsic, continuation).
C4_AmericanCallKeepsStyle ==
  \A i \in 1..2 :
    (OptionName(i) \in made /\ IsAmericanCall(i)) =>
       /\ opt[i].flags[2] = "A"
       /\ Payoff(i) \in made => par[Payoff(i)].option_flags[2] = "A"
       /\ Payoff(i) \in done =>
            \A c \in Interior(Payoff(i)) :
               Cell(Payoff(i), c) =
                 Max(Sub(Cell(par[Payoff(i)].under, c), opt[i].stike),
                     Continuation(Payoff(i), c))

\* C4 (amended): flag construction replaces the American style of a call by
\* European ("American call options are priced as European") and every
\* interior node of its lattice is the continuation value; an American put
\* keeps the American style and every interior node of its lattice is
\* max(K - underlying, continuation).
C4_AmericanCallPricedEuropean ==
  \A i \in 1..2 :
    /\ (OptionName(i) \in made /\ IsAmericanCall(i)) =>
         /\ opt[i].flags = <<One, "E">>
         /\ Payoff(i) \in made => par[Payoff(i)].option_flags = <<One, "E">>
         /\ Payoff(i) \in done =>
              \A c \in Interior(Payoff(i)) :
                 Cell(Payoff(i), c) = Continuation(Payoff(i), c)
    /\ (OptionName(i) \in made /\ IsAmericanPut(i)) =>
         /\ opt[i].flags = <<Num(-1), "A">>
         /\ Payoff(i) \in made => par[Payoff(i)].option_flags = <<Num(-1), "A">>
         /\ Payoff(i) \in done =>
              \A c \in Interior(Payoff(i)) :
                 Cell(Payoff(i), c) =
                   Max(Sub(opt[i].stike, Cell(par[Payoff(i)].under, c)),
                       Continuation(Payoff(i), c))

\* an American call has been priced, and exercising it early would have been
\* worth more than its value at some interior node
C4_Witness ==
  /\ "payoff_1" \in done /\ IsAmericanCall(1) /\ opt[1].flags[2] = "E"
  /\ \E c \in Interior("payoff_1") :
        Lt(Cell("payoff_1", c), Sub(Cell(par["payoff_1"].under, c), opt[1].stike))

-----------------------------------------------------------------------------
\* per-step growth factor g = exp((r - delta) T / N)
Growth == math_exp(Div(Mul(Sub(sec.rate, sec.dividend), sec.maturity), Num(sec.n_periods)))

EuropeanCallAndPut ==
  /\ {"payoff_1", "payoff_2"} \subseteq done
  /\ par["payoff_1"].under = "shares"
  /\ sec.dividend = Zero /\ Lt(One, sec.r_ud[1])
  /\ str_lower(opt[1].type) = S_european /\ str_lower(opt[2].type) = S_european
  /\ str_lower(opt[1].opt) = S_call /\ str_lower(opt[2].opt) = S_put

\* C5: put-call parity.  With zero dividend yield, for a European call and a
\* European put on the same share lattice with the same strike K and expiry
\* n <= N, at every node call - put = share - K / g^(n - period); at the
\* root call - put = S0 - K / g^n.
C5_PutCallParity ==
  EuropeanCallAndPut =>
    \A c \in Tri(size["payoff_1"]) :
       Sub(Cell("payoff_1", c), Cell("payoff_2", c)) =
         Sub(Cell("shares", c),
             Div(opt[1].stike, Pow(Growth, size["payoff_1"] - c[2])))

\* parity where the option expires at the lattice horizon (EXPO = N)
C5_ParityAtHorizon ==
  (EuropeanCallAndPut /\ opt[1].expir = sec.n_periods) =>
    \A c \in Tri(size["payoff_1"]) :
       Sub(Cell("payoff_1", c), Cell("payoff_2", c)) =
         Sub(Cell("shares", c),
             Div(opt[1].stike, Pow(Growth, size["payoff_1"] - c[2])))

-----------------------------------------------------------------------------
Attempted(x) == DOMAIN x # {}

\* C6: constructing a contract succeeds when its enumerated field holds a
\* recognized value and fails with an error when it does not: bond contract
\* type ('forward' / 'future', every other string rejected), cap-floor kind
\* (caplet / floorlet), option side (call / put) and style (european /
\* american).
C6_EnumValidation ==
  /\ Attempted(par["bond_ff_params"]) =>
       IF par["bond_ff_params"].given \in {S_forward, S_future}
       THEN "bond_ff_params" \in made /\ err = "none"
       ELSE "bond_ff_params" \notin made /\ err = "Exception"
  /\ (Attempted(par["cflet"]) /\ pc = Idle /\ done = {"sh_rate"}) =>
       IF str_lower(par["cflet"].type) \in {S_caplet, S_floorlet}
       THEN "cflet" \in made /\ err = "none"
       ELSE "cflet" \notin made /\ err = "Exception"
  /\ (Attempted(opt[1]) /\ "payoff_1" \notin made) =>
       IF /\ str_lower(opt[1].opt) \in {S_call, S_put}
          /\ str_lower(opt[1].type) \in {S_european, S_american}
       THEN "option_1" \in made /\ err = "none"
       ELSE "option_1" \notin made /\ err = "Exception"

\* the part of C6 the code satisfies: cap-floor kind, option side and style
C6_OtherEnums ==
  /\ (Attempted(par["cflet"]) /\ pc = Idle /\ done = {"sh_rate"}) =>
       IF str_lower(par["cflet"].type) \in {S_caplet, S_floorlet}
       THEN "cflet" \in made /\ err = "none"
       ELSE "cflet" \notin made /\ err = "Exception"
  /\ (Attempted(opt[1]) /\ "payoff_1" \notin made) =>
       IF /\ str_lower(opt[1].opt) \in {S_call, S_put}
          /\ str_lower(opt[1].type) \in {S_european, S_american}
       THEN "option_1" \in made /\ err = "none"
       ELSE "option_1" \notin made /\ err = "Exception"

-----------------------------------------------------------------------------
\* C7: equity calibration fails, and yields no calibrated parameters, for
\* every input with sigma < 0, with N <= 0, or with u == d.
C7_CalibrationRejects ==
  (sec.called /\ (\/ Lt(sec.volatility, Zero)
                  \/ sec.n_periods <= 0
                  \/ (IsNum(sec.r_ud[1]) /\ sec.r_ud[1] = sec.r_ud[2]))) =>
     (err # "none" /\ "security" \notin made)

\* the degenerate case u == d does fail, by division by zero
C7_DegenerateFails ==
  (sec.called /\ IsNum(sec.r_ud[1]) /\ sec.r_ud[1] = sec.r_ud[2]) =>
     (err = "ZeroDivisionError" /\ "security" \notin made)

-----------------------------------------------------------------------------
InOpenUnit(q) == Lt(Zero, q) /\ Lt(q, One)

\* C8: for every calibrated equity model with u > 1 (and d = 1/u), u*d = 1;
\* if d < g < u for the growth factor g = exp((r - delta) T / N) then
\* 0 < q < 1, and if g <= d or g >= u then q is outside (0, 1).
C8_CalibratedModel ==
  ("security" \in made /\ Lt(One, sec.r_ud[1])) =>
     /\ Mul(sec.r_ud[1], sec.r_ud[2]) = One
     /\ (Lt(sec.r_ud[2], Growth) /\ Lt(Growth, sec.r_ud[1])) => InOpenUnit(sec.rfp)
     /\ (Le(Growth, sec.r_ud[2]) \/ Le(sec.r_ud[1], Growth)) => ~InOpenUnit(sec.rfp)

C8_Witness ==
  /\ "security" \in made /\ Lt(One, sec.r_ud[1])
  /\ Growth # One
  /\ Lt(sec.r_ud[2], Growth) /\ Lt(Growth, sec.r_ud[1])
  /\ InOpenUnit(sec.rfp)

-----------------------------------------------------------------------------
\* risk-neutral expectation of the two successors of node c in lattice o
Expectation(o, c) ==
  Add(Mul(ts.rnp[1], Cell(o, <<c[1] + 1, c[2] + 1>>)),
      Mul(ts.rnp[2], Cell(o, <<c[1], c[2] + 1>>)))

\* C9: in BondFF.build (on a bond of face 100, the face the code assumes)
\* every terminal node is the bond's value at that node minus face*coupon; every interior node of a forward is the undiscounted
\* expectation of its successors, every interior node of a future is that
\* expectation divided by 1 + shortRate(state, period).
C9_BondForwardFuture ==
  ("bond_ff" \in done /\ par["zcb"].face = Num(100)) =>
     \A c \in Tri(size["bond_ff"]) :
        IF c[2] = size["bond_ff"]
        THEN Cell("bond_ff", c) =
               Sub(Cell("zcb", c), Mul(par["zcb"].face, par["bond_ff"].coupon))
        ELSE IF par["bond_ff"].type = S_forward
        THEN Cell("bond_ff", c) = Expectation("bond_ff", c)
        ELSE Cell("bond_ff", c) =
               Div(Expectation("bond_ff", c), Add(One, Cell("sh_rate", c)))

\* what the code does compute: both contract types divide the expectation by
\* the short rate itself, and the terminal node subtracts 100*coupon
C9_AsCoded ==
  "bond_ff" \in done =>
     \A c \in Tri(size["bond_ff"]) :
        IF c[2] = size["bond_ff"]
        THEN Cell("bond_ff", c) =
               Sub(Cell("zcb", c), Mul(Num(100), par["bond_ff"].coupon))
        ELSE Cell("bond_ff", c) =
               Div(Expectation("bond_ff", c), Cell("sh_rate", c))

-----------------------------------------------------------------------------
ArrearsObjs == {"cflet", "swap"}

TerminalPayoff(o, c) ==
  LET sh == Cell("sh_rate", c)
  IN  IF o = "cflet"
      THEN Div(Mul(par[o].flag, Sub(sh, par[o].rate)), Add(One, sh))
      ELSE Div(Sub(sh, par[o].rate), Add(One, sh))

InteriorValue(o, c) ==
  LET sh == Cell("sh_rate", c)
  IN  IF o = "cflet"
      THEN Div(Expectation(o, c), Add(One, sh))
      ELSE Div(Add(Sub(sh, par[o].rate), Expectation(o, c)), Add(One, sh))

Accesses(o) == {log[i] : i \in {j \in 1..Len(log) : log[j].by = o}}
Written(o)  == {<<e.s, e.p>> : e \in {a \in Accesses(o) : a.k = "w"}}

\* C10: a caplet, floorlet or swap of maturity n is built on horizon n - 1:
\* the terminal payoff is applied exactly at period n - 1, the interior rule
\* at periods 0..n-2, the build reads and writes no cell of period n, and
\* for n = 1 the lattice is the root alone, carrying the terminal payoff.
C10_ArrearsHorizon ==
  \A o \in ArrearsObjs \cap made :
    LET n == par[o].nperiods
    IN  /\ size[o] = n - 1
        /\ \A e \in Accesses(o) : e.p <= n - 1 /\ e.s <= e.p /\ e.s >= 0
        /\ \A s \in 0..n : lattice[o][s][n] = Blank
        /\ o \in done =>
             /\ Written(o) = Tri(n - 1)
             /\ \A c \in Tri(n - 1) :
                  Cell(o, c) = IF c[2] = n - 1 THEN TerminalPayoff(o, c)
                               ELSE InteriorValue(o, c)
             /\ n = 1 => Written(o) = {<<0, 0>>}

C10_Witness ==
  /\ "swap" \in done /\ par["swap"].nperiods >= 2
  /\ Cell("swap", <<0, 0>>) = InteriorValue("swap", <<0, 0>>)
  /\ Cell("swap", <<0, 0>>) # TerminalPayoff("swap", <<0, 0>>)

-----------------------------------------------------------------------------
ElemN == size["elementary"]

\* C11: discount() on an elementary-price lattice whose build() has not
\* completed fails with the not-built error and leaves the lattice, the
\* price vector and the rates vector as they were (as allocated); after
\* build() has completed it does not fail.
C11_DiscountNeedsBuild ==
  elem.calls >= 1 =>
    IF ElementaryPrices_built
    THEN err = "none"
    ELSE /\ err = "Exception"
         /\ lattice["elementary"] = Lattice_init(ElemN)
         /\ elem.price = [x \in 0..ElemN |-> Zero]
         /\ elem.rates = [x \in 0..ElemN |-> Rate0]

\* discount() has been called before build() and has raised
C11_Witness ==
  /\ elem.calls = 1 /\ ~ElementaryPrices_built /\ err = "Exception"
  /\ ElemN >= 2

\* discount() has been called after build() and has returned
C11_WitnessBuilt ==
  /\ elem.calls = 1 /\ ElementaryPrices_built /\ err = "none" /\ ElemN >= 2

-----------------------------------------------------------------------------
\* base * (sum over states 0..p of the elementary prices of period p)
ZeroPrice(p) == Mul(par["elementary"].base, SumStates("elementary", p, p))

\* C17: on a built elementary-price lattice, after any number k >= 1 of
\* calls of discount(), price[p] = base * (sum of the elementary prices of
\* period p) and rates[p] = (base / price[p])^(1/p) - 1 for every period p
\* in 1..N, so the vectors after the second call are those after the first.
C17_DiscountIdempotent ==
  (ElementaryPrices_built /\ elem.calls >= 1) =>
     \A p \in 1..ElemN :
        /\ elem.price[p] = ZeroPrice(p)
        /\ elem.rates[p] = RootMinusOne(Div(par["elementary"].base, ZeroPrice(p)), p)

\* the first call does leave these values
C17_FirstCall ==
  (ElementaryPrices_built /\ elem.calls = 1) =>
     \A p \in 1..ElemN :
        /\ elem.price[p] = ZeroPrice(p)
        /\ elem.rates[p] = RootMinusOne(Div(par["elementary"].base, ZeroPrice(p)), p)

RECURSIVE GeomSum(_, _)
\* b + b^2 + ... + b^k
GeomSum(b, k) == IF k = 0 THEN Zero ELSE Mul(b, Add(One, GeomSum(b, k - 1)))

\* what k calls leave: every call adds the state prices to the price the
\* previous call left, then scales by base
C17_Accumulates ==
  ElementaryPrices_built =>
     \A p \in 1..ElemN :
        elem.price[p] = Mul(SumStates("elementary", p, p),
                            GeomSum(par["elementary"].base, elem.calls))

-----------------------------------------------------------------------------
ForwardObjs == {"sh_rate", "shares"}
V0(o) == IF o = "sh_rate" THEN ts.init ELSE sec.init
Up(o) == IF o = "sh_rate" THEN ts.r_ud[1] ELSE sec.r_ud[1]
Down(o) == IF o = "sh_rate" THEN ts.r_ud[2] ELSE sec.r_ud[2]

\* C12: after the forward build of a share or short-rate tree with initial
\* value v0, multipliers u, d and horizon N, every node (state, period) holds
\* v0 * u^state * d^(period - state): the root is v0, state 0 of period p is
\* d times state 0 of period p-1, and every state s > 0 of period p is u
\* times state s-1 of period p-1.
C12_ForwardClosedForm ==
  \A o \in ForwardObjs \cap done :
    \A c \in Tri(size[o]) :
      /\ Cell(o, c) = Mul(V0(o), Mul(Pow(Up(o), c[1]), Pow(Down(o), c[2] - c[1])))
      /\ c = <<0, 0>> => Cell(o, c) = V0(o)
      /\ (c[1] = 0 /\ c[2] > 0) => Cell(o, c) = Mul(Down(o), Cell(o, <<0, c[2] - 1>>))
      /\ c[1] > 0 => Cell(o, c) = Mul(Up(o), Cell(o, <<c[1] - 1, c[2] - 1>>))

\* a short-rate tree with u # d, built over two periods or more
C12_Witness ==
  /\ "sh_rate" \in done /\ size["sh_rate"] >= 2 /\ Up("sh_rate") # Down("sh_rate")
  /\ Cell("sh_rate", <<1, 2>>) = Mul(V0("sh_rate"), Mul(Up("sh_rate"), Down("sh_rate")))
  /\ Cell("sh_rate", <<0, 2>>) # Cell("sh_rate", <<2, 2>>)

-----------------------------------------------------------------------------
BackwardObjs == {"zcb", "zcb_opt_e", "zcb_opt_a", "swap", "swaption", "cflet", "futures"}

\* positions in log of the accesses made by the build of o
By(o) == {i \in 1..Len(log) : log[i].by = o}
Writes(o) == {i \in By(o) : log[i].k = "w"}

\* the order of the accesses of a backward build, at every moment of it
C13_BackwardOrder ==
  \A o \in BackwardObjs :
    LET by == By(o)
        w  == {i \in by : log[i].k = "w"}
        WrittenBefore(i, s, p) == \E j \in w : j < i /\ log[j].s = s /\ log[j].p = p
    IN  /\ \A i \in w :
             \* written once, periods in decreasing order
             /\ \A j \in w :
                  j < i => /\ <<log[j].s, log[j].p>> # <<log[i].s, log[i].p>>
                           /\ log[j].p >= log[i].p
             \* the interior rule runs after both successors were written
             /\ log[i].p < size[o] =>
                  /\ WrittenBefore(i, log[i].s, log[i].p + 1)
                  /\ WrittenBefore(i, log[i].s + 1, log[i].p + 1)
             \* the first cell written is of the terminal period
             /\ (\A j \in w : i <= j) => log[i].p = size[o]
        \* a cell of its own lattice is read only after it was written
        /\ \A i \in by :
             (log[i].k = "r" /\ log[i].of = o) => WrittenBefore(i, log[i].s, log[i].p)
        \* the completed build has written the whole triangle, the root last
        /\ o \in done =>
             /\ {<<log[i].s, log[i].p>> : i \in w} = Tri(size[o])
             /\ \E i \in w :
                  /\ <<log[i].s, log[i].p>> = <<0, 0>>
                  /\ \A j \in by : j <= i

\* a backward build that has entered its loops comes to its end
C13_Terminates ==
  \A o \in BackwardObjs :
    (pc.obj = o) ~> (o \in done \/ (o = "swaption" /\ err # "none"))

-----------------------------------------------------------------------------
\* the horizon a lattice was allocated with: its table is (N+1) x (N+1)
Horizon(o) == Cardinality(DOMAIN lattice[o]) - 1

\* the value Lattice.__init__ puts in every cell of o
Allocated(o) == IF o \in {"shares", "futures", "payoff_1", "payoff_2"} THEN Zero ELSE Blank

\* C14: throughout and after every build, forward or backward, no cell
\* (state, period) with state > period, with a negative index or with an
\* index greater than the horizon N is read or written, in the lattice being
\* built or in a lattice it consumes; the cells outside the triangle keep
\* their allocation value.
C14_TriangleOnly ==
  /\ \A i \in 1..Len(log) :
       /\ 0 <= log[i].s /\ log[i].s <= log[i].p
       /\ log[i].p <= Horizon(log[i].of)
  /\ \A o \in Objs :
       \A s \in DOMAIN lattice[o] :
         \A p \in DOMAIN lattice[o] :
           s > p => lattice[o][s][p] = Allocated(o)

\* a futures lattice built over two periods or more, on the share lattice
C14_Witness ==
  /\ "futures" \in done /\ size["futures"] >= 2
  /\ \E i \in By("futures") : log[i].k = "r" /\ log[i].of = "shares"
  /\ \E i \in By("futures") : log[i].k = "r" /\ log[i].of = "futures"

-----------------------------------------------------------------------------
DerivativeObjs == Objs \ ForwardObjs

\* the builder at work in a step: the object whose loops run or are entered
Builder == IF pc.obj # "none" THEN pc.obj ELSE pc'.obj

\* C15: a step of the build of a derivative lattice (ZCB, ZCB option, swap,
\* swaption, caplet/floorlet, elementary prices, futures, options) leaves
\* every other lattice and the calibration parameters (initial value,
\* multipliers, risk-neutral probabilities) unchanged: it writes its own
\* lattice only.
C15_BorrowedUnchanged ==
  [][(pc.obj \in DerivativeObjs \/ pc'.obj \in DerivativeObjs) =>
       /\ ts' = ts
       /\ sec' = sec
       /\ \A o \in Objs \ {Builder} : lattice'[o] = lattice[o]]_vars

\* a swaption built on a swap lattice with a negative value at its maturity
C15_Witness ==
  /\ "swaption" \in done /\ size["swaption"] >= 1
  /\ \E s \in 0..size["swaption"] :
        Lt(Cell("swap", <<s, size["swaption"]>>), Zero)

-----------------------------------------------------------------------------
SwaptionReadsOfSwap == {e \in Accesses("swaption") : e.of = "swap"}

\* C16: for every swaption maturity m, 0 <= m <= swap maturity n, the
\* swaption build reads at its terminal period only swap cells (state, m)
\* that the swap build has written, every terminal value is max(0, swap
\* value), and the build runs to completion without an error.
C16_SwaptionOnBuiltSwap ==
  "swaption" \in made =>
     /\ \A e \in SwaptionReadsOfSwap : <<e.s, e.p>> \in Written("swap")
     /\ err = "none"
     /\ "swaption" \in done =>
          \A s \in 0..size["swaption"] :
             Cell("swaption", <<s, size["swaption"]>>)
               = Max(Zero, Cell("swap", <<s, size["swaption"]>>))

\* the same for m < n, the maturities the swap lattice covers
C16_BelowSwapMaturity ==
  ("swaption" \in made /\ par["swaption"].nperiods < par["swap"].nperiods) =>
     /\ \A e \in SwaptionReadsOfSwap : <<e.s, e.p>> \in Written("swap")
     /\ err = "none"
     /\ "swaption" \in done =>
          \A s \in 0..size["swaption"] :
             Cell("swaption", <<s, size["swaption"]>>)
               = Max(Zero, Cell("swap", <<s, size["swaption"]>>))

\* for m = n the first terminal cell reads an unwritten swap cell and raises
C16_AtSwapMaturity ==
  ("swaption" \in made /\ par["swaption"].nperiods = par["swap"].nperiods
     /\ SwaptionReadsOfSwap # {}) =>
     /\ err = "TypeError"
     /\ Written("swaption") = {}

====
